---------------------------- MODULE Spec2Model ----------------------------
(***************************************************************************)
(* Model of src/inventory.py: a shoe inventory kept in the list            *)
(* shoes_list and in the text file inventory.txt.                          *)
(*                                                                         *)
(* Text is modelled as it is: a string is a sequence of one-character      *)
(* strings, the file is its content (one such sequence) and the functions  *)
(* the code applies to text (readlines, strip, rstrip, split, int, float,  *)
(* str) are operators that compute what Python computes on the alphabet    *)
(* used here: letters, digits, "+", "-", ".", ",", " " and "\n".            *)
(***************************************************************************)
EXTENDS Integers, Sequences, FiniteSets, TLC

(***************************************************************************)
(* Bounds of the model.                                                    *)
(***************************************************************************)
MaxDataLines == 2      \* data lines after the header in an initial file
MaxCaptured  == 1      \* capture_shoes is offered while fewer Shoes are captured ones
MaxQty       == 3      \* re_stock is offered while the new quantity stays below

(***************************************************************************)
(* Text helpers (Python str methods).                                      *)
(***************************************************************************)
NL == "\n"

Whitespace == {" ", NL}

Digits == {"0", "1", "2", "3", "4", "5", "6", "7", "8", "9"}

DigitVal(c) ==
  CASE c = "0" -> 0 [] c = "1" -> 1 [] c = "2" -> 2 [] c = "3" -> 3
    [] c = "4" -> 4 [] c = "5" -> 5 [] c = "6" -> 6 [] c = "7" -> 7
    [] c = "8" -> 8 [] c = "9" -> 9

DigitChar(d) == <<"0", "1", "2", "3", "4", "5", "6", "7", "8", "9">>[d + 1]

\* s[a..b], empty when a > b
Slice(s, a, b) == IF a > b THEN <<>> ELSE SubSeq(s, a, b)

\* str.lstrip(): drop leading whitespace
RECURSIVE LStrip(_)
LStrip(s) ==
  IF s # <<>> /\ Head(s) \in Whitespace THEN LStrip(Tail(s)) ELSE s

\* str.rstrip(): drop trailing whitespace
RECURSIVE RStrip(_)
RStrip(s) ==
  IF s # <<>> /\ s[Len(s)] \in Whitespace
    THEN RStrip(Slice(s, 1, Len(s) - 1))
    ELSE s

\* str.strip()
Strip(s) == RStrip(LStrip(s))

\* str.rstrip("\n"): drop trailing newlines only
RECURSIVE RStripNL(_)
RStripNL(s) ==
  IF s # <<>> /\ s[Len(s)] = NL
    THEN RStripNL(Slice(s, 1, Len(s) - 1))
    ELSE s

\* str.endswith("\n")
EndsWithNL(s) == s # <<>> /\ s[Len(s)] = NL

\* position of the first c in s, 0 when there is none
RECURSIVE IndexOf(_, _, _)
IndexOf(s, c, from) ==
  IF from > Len(s) THEN 0
  ELSE IF s[from] = c THEN from
  ELSE IndexOf(s, c, from + 1)

\* str.split(","): always at least one part, empty parts kept
RECURSIVE Split(_)
Split(s) ==
  LET i == IndexOf(s, ",", 1)
  IN  IF i = 0 THEN <<s>>
      ELSE <<Slice(s, 1, i - 1)>> \o Split(Slice(s, i + 1, Len(s)))

\* [p.strip() for p in line.split(",")]
Parts(s) == LET ps == Split(s) IN [i \in 1..Len(ps) |-> Strip(ps[i])]

\* file.readlines(): the lines of a content, each keeping its "\n"
RECURSIVE ReadLines(_)
ReadLines(content) ==
  IF content = <<>> THEN <<>>
  ELSE LET i == IndexOf(content, NL, 1)
       IN  IF i = 0 THEN <<content>>
           ELSE <<Slice(content, 1, i)>>
                  \o ReadLines(Slice(content, i + 1, Len(content)))

\* file.writelines(lines): the concatenation of the lines
RECURSIVE WriteLines(_)
WriteLines(lines) ==
  IF lines = <<>> THEN <<>> ELSE Head(lines) \o WriteLines(Tail(lines))

AllDigits(s) == s # <<>> /\ \A i \in 1..Len(s) : s[i] \in Digits

RECURSIVE DigitsVal(_)
DigitsVal(s) ==
  IF s = <<>> THEN 0
  ELSE 10 * DigitsVal(Slice(s, 1, Len(s) - 1)) + DigitVal(s[Len(s)])

HasSign(s) == s # <<>> /\ Head(s) \in {"+", "-"}

Unsigned(s) == IF HasSign(s) THEN Tail(s) ELSE s

\* int(s) raises ValueError unless s is an optional sign and digits
\* (surrounding whitespace is allowed by int() itself)
IsInt(s) == AllDigits(Unsigned(Strip(s)))

IntVal(s) ==
  LET t == Strip(s)
      v == DigitsVal(Unsigned(t))
  IN  IF HasSign(t) /\ Head(t) = "-" THEN 0 - v ELSE v

\* float(s) raises ValueError unless s is an optional sign and a decimal
\* numeral with at least one digit ("1", "1.", ".5", "1.5")
IsFloat(s) ==
  LET u == Unsigned(Strip(s))
      d == IndexOf(u, ".", 1)
      ip == IF d = 0 THEN u ELSE Slice(u, 1, d - 1)
      fp == IF d = 0 THEN <<>> ELSE Slice(u, d + 1, Len(u))
  IN  /\ ip = <<>> \/ AllDigits(ip)
      /\ fp = <<>> \/ AllDigits(fp)
      /\ ip # <<>> \/ fp # <<>>

\* The value of float(s), in hundredths (the texts used here have at most
\* two decimals, so the value is exact).
CostScale == 100

FloatVal(s) ==
  LET t == Strip(s)
      u == Unsigned(t)
      d == IndexOf(u, ".", 1)
      ip == IF d = 0 THEN u ELSE Slice(u, 1, d - 1)
      fp == IF d = 0 THEN <<>> ELSE Slice(u, d + 1, Len(u))
      f2 == Slice(fp \o <<"0", "0">>, 1, 2)
      v == DigitsVal(ip) * CostScale + DigitsVal(f2)
  IN  IF HasSign(t) /\ Head(t) = "-" THEN 0 - v ELSE v

\* str(n) of an int
RECURSIVE NatStr(_)
NatStr(n) ==
  IF n < 10 THEN <<DigitChar(n)>>
  ELSE NatStr(n \div 10) \o <<DigitChar(n % 10)>>

IntStr(n) == IF n < 0 THEN <<"-">> \o NatStr(0 - n) ELSE NatStr(n)


\* str.lower() on the letters used here
LowerChar(c) ==
  CASE c = "Y" -> "y" [] c = "N" -> "n" [] OTHER -> c

Lower(s) == [i \in 1..Len(s) |-> LowerChar(s[i])]

\* ",".join(fields)
RECURSIVE Join(_)
Join(fields) ==
  IF Len(fields) = 0 THEN <<>>
  ELSE IF Len(fields) = 1 THEN fields[1]
  ELSE fields[1] \o <<",">> \o Join(Tail(fields))

(***************************************************************************)
(* Inputs: the lines an inventory.txt is made of, and what the operator    *)
(* types at the prompts.                                                   *)
(***************************************************************************)
S1(a) == <<a>>

\* The first line is skipped whatever it holds: here it would decode.
Header == <<"H", ",", "C", ",", "p", ",", "2", ",", "1">>

LinePool ==
  << <<"U", ",", " ", "A", ",", "p", ",", "1", ".", "5", ",", "1">>,  \* valid
     <<"U", ",", "C", ",", "p", ",", "x", ",", "1">>,                \* bad cost
     <<"U", ",", "B", ",", "q">>,                                    \* 3 fields
     <<" ">> >>                                                      \* blank

\* the choices of at most n lines of the pool (a line may be taken more
\* than once), as sequences of pool indices in pool order
RECURSIVE LineChoices(_)
LineChoices(n) ==
  IF n = 0 THEN {<<>>}
  ELSE LET shorter == LineChoices(n - 1)
       IN  shorter \cup
             {Append(c, k) : c \in {x \in shorter : Len(x) = n - 1},
                             k \in 1..Len(LinePool)}

InOrder(c) == \A i \in 1..(Len(c) - 1) : c[i] <= c[i + 1]

LineSeqs(n) ==
  {[i \in 1..Len(c) |-> LinePool[c[i]]] : c \in {x \in LineChoices(n) : InOrder(x)}}

RECURSIVE Terminated(_)
Terminated(ls) ==
  IF ls = <<>> THEN <<>> ELSE Head(ls) \o <<NL>> \o Terminated(Tail(ls))

\* a header and data lines, the last line with or without its "\n";
\* and the file of zero lines
InitContents ==
  LET full == {Terminated(<<Header>> \o ls) : ls \in LineSeqs(MaxDataLines)}
  IN  full \cup {Slice(c, 1, Len(c) - 1) : c \in full} \cup {<<>>}

CodeInputs == {<<" ", "C">>}

CostInputs == {<<"2">>, <<"x">>}

QuantityInputs == {<<"-", "1", " ">>, <<"1", ".", "5">>}

\* a Python int has no upper end, a float has: shoe.cost * shoe.quantity
\* converts the int and raises OverflowError ("int too large to convert to
\* float") beyond sys.float_info.max, about 1.8 * 10^308.  TLC's integers
\* end at 2^31 - 1, so the model keeps the two sides of that limit at its own
\* scale: FloatMaxInt stands for the limit, LargeQuantityInputs for a
\* quantity typed with more digits than the limit has.
FloatMaxInt == 1000000

LargeQuantityInputs == {<<"1", "0", "0", "0", "0", "0", "0", "0">>}

ConfirmInputs == {<<" ", "Y">>, <<"n">>}

AddInputs == {<<" ", "2">>, <<"0">>, <<"-", "1">>, <<"x">>}

SearchInputs == {<<"A", " ">>, <<"C">>}

(***************************************************************************)
(* State.                                                                  *)
(***************************************************************************)
VARIABLES
  shoes_list,   \* the list of Shoe objects
  captured,     \* for each Shoe of shoes_list: made by capture_shoes?
  inventory,    \* inventory.txt: does it exist, and its content
  running,      \* main's loop has not reached its break
  last          \* the operation just run: its inputs, outcome and the
                \* state it started from

vars == <<shoes_list, captured, inventory, running, last>>

\* Shoe.__init__
Shoe(country, code, product, cost, quantity) ==
  [country |-> country, code |-> code, product |-> product,
   cost |-> cost, quantity |-> quantity]

\* What the operating system does to an operation's file access: nothing,
\* or an error at the open for reading (PermissionError), during the read
\* (any other OSError), at the open for writing (PermissionError: the file
\* is not truncated) or during the write, after n lines reached the file.
NoFailure == [at |-> "none", n |-> 0]

ReadFailures == {[at |-> "open_r", n |-> 0], [at |-> "read", n |-> 0]}

WriteFailures(lines) ==
  {[at |-> "open_w", n |-> 0]} \cup {[at |-> "write", n |-> k] : k \in 0..(Len(lines) - 1)}

Op(name, io, idx, add, arg, updated, out) ==
  [op |-> name, io |-> io, idx |-> idx, add |-> add, arg |-> arg,
   updated |-> updated, out |-> out, list0 |-> shoes_list,
   captured0 |-> captured, file0 |-> inventory]

Init ==
  /\ shoes_list = <<>>
  /\ captured = <<>>
  /\ inventory \in [exists : {TRUE}, content : InitContents]
                     \cup {[exists |-> FALSE, content |-> <<>>]}
  /\ running = TRUE
  /\ last = [op |-> "start", io |-> NoFailure, idx |-> 0, add |-> 0, arg |-> <<>>,
             updated |-> FALSE, out |-> <<>>, list0 |-> <<>>, captured0 |-> <<>>,
             file0 |-> inventory]

(***************************************************************************)
(* read_shoes_data                                                         *)
(***************************************************************************)
\* the body of the for loop (lines 58-76): the Shoes one line adds
DecodeLine(line) ==
  LET stripped == Strip(line)
      parts == Parts(stripped)
  IN  IF stripped = <<>> THEN <<>>
      ELSE IF Len(parts) # 5 THEN <<>>
      ELSE IF ~(IsFloat(parts[4]) /\ IsInt(parts[5])) THEN <<>>
      ELSE <<Shoe(parts[1], parts[2], parts[3], FloatVal(parts[4]), IntVal(parts[5]))>>

\* for line in lines[1:] (line 57)
RECURSIVE DecodeLines(_, _)
DecodeLines(lines, from) ==
  IF from > Len(lines) THEN <<>>
  ELSE DecodeLine(lines[from]) \o DecodeLines(lines, from + 1)

\* read_shoes_data that decodes the first line too
LoadedShoesWithHeader(file, io) ==
  IF ~file.exists \/ io.at # "none" THEN <<>>
  ELSE LET lines == ReadLines(file.content)
       IN  IF lines = <<>> THEN <<>> ELSE DecodeLines(lines, 1)

\* read_shoes_data that clears shoes_list only once the file is read
LoadedShoesKeptOnError(file, io) ==
  IF ~file.exists \/ io.at # "none" THEN shoes_list
  ELSE LET lines == ReadLines(file.content)
       IN  IF lines = <<>> THEN <<>> ELSE DecodeLines(lines, 2)

\* shoes_list after read_shoes_data (lines 46-85)
LoadedShoes(file, io) ==
  IF ~file.exists \/ io.at # "none" THEN <<>>
  ELSE LET lines == ReadLines(file.content)
       IN  IF lines = <<>> THEN <<>> ELSE DecodeLines(lines, 2)

read_shoes_data ==
  /\ running
  /\ \E io \in {NoFailure} \cup ReadFailures :
       /\ shoes_list' = LoadedShoes(inventory, io)
       /\ captured' = [i \in 1..Len(shoes_list') |-> FALSE]
       /\ last' = Op("read_shoes_data", io, 0, 0, <<>>, FALSE, <<>>)
  /\ UNCHANGED <<inventory, running>>

(***************************************************************************)
(* capture_shoes                                                           *)
(***************************************************************************)
\* capture_shoes that also appends the new Shoe to inventory.txt
capture_shoes_saved ==
  /\ running
  /\ Cardinality({i \in 1..Len(captured) : captured[i]}) < MaxCaptured
  /\ \E code \in CodeInputs, cost \in CostInputs, quantity \in QuantityInputs :
       /\ IsFloat(Strip(cost))
       /\ IsInt(Strip(quantity))
       /\ shoes_list' = Append(shoes_list,
            Shoe(Strip(S1("U")), Strip(code), Strip(S1("p")),
                 FloatVal(Strip(cost)), IntVal(Strip(quantity))))
       /\ captured' = Append(captured, TRUE)
       /\ inventory' = [inventory EXCEPT !.content =
            @ \o Join(<<S1("U"), Strip(code), S1("p"), Strip(cost), Strip(quantity)>>)
              \o <<NL>>]
       /\ last' = Op("capture_shoes", NoFailure, Len(shoes_list) + 1, 0, code, FALSE,
                     <<S1("U"), code, S1("p"), cost, quantity>>)
  /\ UNCHANGED running

\* capture_shoes that puts the new Shoe first (insert(0, shoe))
capture_shoes_first ==
  /\ running
  /\ Cardinality({i \in 1..Len(captured) : captured[i]}) < MaxCaptured
  /\ \E code \in CodeInputs, cost \in CostInputs, quantity \in QuantityInputs :
       /\ IsFloat(Strip(cost))
       /\ IsInt(Strip(quantity))
       /\ shoes_list' =
            <<Shoe(Strip(S1("U")), Strip(code), Strip(S1("p")),
                   FloatVal(Strip(cost)), IntVal(Strip(quantity)))>> \o shoes_list
       /\ captured' = <<TRUE>> \o captured
       /\ last' = Op("capture_shoes", NoFailure, 1, 0, code, FALSE,
                     <<S1("U"), code, S1("p"), cost, quantity>>)
  /\ UNCHANGED <<inventory, running>>

\* lines 90-111: the five answers, the two numbers asked again until they
\* parse, the quantity answers being taken from quantities; last.out keeps
\* the answers as typed
CaptureWith(quantities) ==
  /\ running
  /\ Cardinality({i \in 1..Len(captured) : captured[i]}) < MaxCaptured
  /\ \E code \in CodeInputs, cost \in CostInputs, quantity \in quantities :
       \* the two while loops end at the first input float() / int() accepts
       /\ IsFloat(Strip(cost))
       /\ IsInt(Strip(quantity))
       /\ shoes_list' = Append(shoes_list,
            Shoe(Strip(S1("U")), Strip(code), Strip(S1("p")),
                 FloatVal(Strip(cost)), IntVal(Strip(quantity))))
       /\ captured' = Append(captured, TRUE)
       /\ last' = Op("capture_shoes", NoFailure, Len(shoes_list) + 1, 0, code, FALSE,
                     <<S1("U"), code, S1("p"), cost, quantity>>)
  /\ UNCHANGED <<inventory, running>>

capture_shoes == CaptureWith(QuantityInputs)

\* int() takes a whole number of any size (up to 4300 digits): a Capture
\* with a quantity beyond what a float holds
capture_large == CaptureWith(LargeQuantityInputs)

(***************************************************************************)
(* _update_quantity_in_file                                                *)
(***************************************************************************)
\* line if line.endswith("\n") else line + "\n"
WithNL(line) == IF EndsWithNL(line) THEN line ELSE line \o <<NL>>

\* does the loop body set updated for this line (lines 144-158)
LineMatches(line, target_code) ==
  LET raw == RStripNL(line)
      parts == Parts(raw)
  IN  Strip(raw) # <<>> /\ Len(parts) = 5 /\ parts[2] = target_code

\* the loop body writing the quantity it read instead of new_quantity
UpdatedLineOldQuantity(line, target_code, new_quantity) ==
  LET raw == RStripNL(line)
      parts == Parts(raw)
  IN  IF Strip(raw) = <<>> THEN line
      ELSE IF Len(parts) # 5 THEN WithNL(line)
      ELSE IF parts[2] = target_code
        THEN Join(<<parts[1], parts[2], parts[3], parts[4], parts[5]>>) \o <<NL>>
      ELSE WithNL(line)

\* the loop body dropping the lines that do not have 5 fields
UpdatedLineDropsInvalid(line, target_code, new_quantity) ==
  LET raw == RStripNL(line)
      parts == Parts(raw)
  IN  IF Strip(raw) = <<>> THEN line
      ELSE IF Len(parts) # 5 THEN <<>>
      ELSE IF parts[2] = target_code
        THEN Join(<<parts[1], parts[2], parts[3], parts[4], IntStr(new_quantity)>>)
               \o <<NL>>
      ELSE WithNL(line)

\* what the loop body appends to updated_lines for one line (lines 144-160)
UpdatedLine(line, target_code, new_quantity) ==
  LET raw == RStripNL(line)
      parts == Parts(raw)
  IN  IF Strip(raw) = <<>> THEN line
      ELSE IF Len(parts) # 5 THEN WithNL(line)
      ELSE IF parts[2] = target_code
        THEN Join(<<parts[1], parts[2], parts[3], parts[4], IntStr(new_quantity)>>)
               \o <<NL>>
      ELSE WithNL(line)

\* updated_lines (lines 139-160)
UpdatedLines(lines, target_code, new_quantity) ==
  [i \in 1..Len(lines) |->
     IF i = 1 THEN lines[1] ELSE UpdatedLine(lines[i], target_code, new_quantity)]

\* updated (lines 141, 158)
AnyUpdated(lines, target_code) ==
  \E i \in 2..Len(lines) : LineMatches(lines[i], target_code)

\* The failures that can meet one call: at the read, or, when the call gets
\* as far as rewriting the file, at the write.
UpdateFailures(file, target_code) ==
  IF ~file.exists THEN {}
  ELSE LET lines == ReadLines(file.content)
       IN  ReadFailures \cup
             (IF lines # <<>> /\ AnyUpdated(lines, target_code)
                THEN WriteFailures(lines) ELSE {})

\* the call without its "if not updated: return False"
UpdateQuantityAlwaysWrites(file, target_code, new_quantity, io) ==
  IF ~file.exists \/ io.at \in {"open_r", "read"}
    THEN [updated |-> FALSE, file |-> file]
  ELSE LET lines == ReadLines(file.content)
           updated_lines == UpdatedLines(lines, target_code, new_quantity)
       IN  IF lines = <<>> THEN [updated |-> FALSE, file |-> file]
           ELSE IF io.at = "open_w" THEN [updated |-> FALSE, file |-> file]
           ELSE IF io.at = "write"
             THEN [updated |-> FALSE,
                   file |-> [exists |-> TRUE,
                             content |-> WriteLines(Slice(updated_lines, 1, io.n))]]
           ELSE [updated |-> AnyUpdated(lines, target_code),
                 file |-> [exists |-> TRUE, content |-> WriteLines(updated_lines)]]

\* the return value and the file after the call (lines 132-178)
UpdateQuantityInFile(file, target_code, new_quantity, io) ==
  IF ~file.exists \/ io.at \in {"open_r", "read"}
    THEN [updated |-> FALSE, file |-> file]
  ELSE LET lines == ReadLines(file.content)
           updated_lines == UpdatedLines(lines, target_code, new_quantity)
       IN  IF lines = <<>> THEN [updated |-> FALSE, file |-> file]
           ELSE IF ~AnyUpdated(lines, target_code)
             THEN [updated |-> FALSE, file |-> file]
           ELSE IF io.at = "open_w" THEN [updated |-> FALSE, file |-> file]
           ELSE IF io.at = "write"
             \* open(..., "w") emptied the file, io.n lines were written
             THEN [updated |-> FALSE,
                   file |-> [exists |-> TRUE,
                             content |-> WriteLines(Slice(updated_lines, 1, io.n))]]
           ELSE [updated |-> TRUE,
                 file |-> [exists |-> TRUE, content |-> WriteLines(updated_lines)]]

(***************************************************************************)
(* re_stock                                                                *)
(***************************************************************************)
\* min that moves on to a later Shoe of equal quantity
RECURSIVE MinFromLast(_, _, _)
MinFromLast(list, best, i) ==
  IF i > Len(list) THEN best
  ELSE IF list[i].quantity <= list[best].quantity THEN MinFromLast(list, i, i + 1)
  ELSE MinFromLast(list, best, i + 1)

\* min(shoes_list, key=lambda s: s.quantity): the index of the first Shoe
\* no later Shoe is strictly below
RECURSIVE MinFrom(_, _, _)
MinFrom(list, best, i) ==
  IF i > Len(list) THEN best
  ELSE IF list[i].quantity < list[best].quantity THEN MinFrom(list, i, i + 1)
  ELSE MinFrom(list, best, i + 1)

LowestShoe(list) == MinFrom(list, 1, 2)

\* lines 186-188: nothing loaded
re_stock_empty ==
  /\ running
  /\ shoes_list = <<>>
  /\ last' = Op("re_stock", NoFailure, 0, 0, <<>>, FALSE, <<>>)
  /\ UNCHANGED <<shoes_list, captured, inventory, running>>

\* a cancellation that still runs the file update, with the quantity as it is
re_stock_cancelled_rewrites ==
  /\ running
  /\ shoes_list # <<>>
  /\ \E choice \in ConfirmInputs :
       LET lowest == LowestShoe(shoes_list)
           r == UpdateQuantityInFile(inventory, shoes_list[lowest].code,
                                     shoes_list[lowest].quantity, NoFailure)
       IN  /\ Lower(Strip(choice)) # S1("y")
           /\ inventory' = r.file
           /\ last' = Op("re_stock", NoFailure, lowest, 0, choice, r.updated, <<>>)
  /\ UNCHANGED <<shoes_list, captured, running>>

\* lines 190-198: the operator does not answer y
re_stock_cancelled ==
  /\ running
  /\ shoes_list # <<>>
  /\ \E choice \in ConfirmInputs :
       /\ Lower(Strip(choice)) # S1("y")
       /\ last' = Op("re_stock", NoFailure, LowestShoe(shoes_list), 0, choice, FALSE, <<>>)
  /\ UNCHANGED <<shoes_list, captured, inventory, running>>

\* a Restock that raises every Shoe of the lowest Shoe's code, the way the
\* file update goes by code
re_stock_by_code ==
  /\ running
  /\ shoes_list # <<>>
  /\ \E choice \in ConfirmInputs, answer \in AddInputs :
       LET lowest == LowestShoe(shoes_list)
           add_qty == IntVal(Strip(answer))
           new_quantity == shoes_list[lowest].quantity + add_qty
           target_code == shoes_list[lowest].code
       IN  /\ Lower(Strip(choice)) = S1("y")
           /\ IsInt(Strip(answer))
           /\ add_qty > 0
           /\ new_quantity <= MaxQty
           /\ \E io \in {NoFailure} \cup UpdateFailures(inventory, target_code) :
                LET r == UpdateQuantityInFile(inventory, target_code, new_quantity, io)
                IN  /\ shoes_list' =
                         [i \in 1..Len(shoes_list) |->
                            IF shoes_list[i].code = target_code
                            THEN [shoes_list[i] EXCEPT !.quantity = new_quantity]
                            ELSE shoes_list[i]]
                    /\ inventory' = r.file
                    /\ last' = Op("re_stock", io, lowest, add_qty, choice, r.updated, <<>>)
  /\ UNCHANGED <<captured, running>>

\* lines 190-218: the operator answers y and, in the end, a whole number > 0
re_stock ==
  /\ running
  /\ shoes_list # <<>>
  /\ \E choice \in ConfirmInputs, answer \in AddInputs :
       LET lowest == LowestShoe(shoes_list)
           add_qty == IntVal(Strip(answer))
           new_quantity == shoes_list[lowest].quantity + add_qty
           target_code == shoes_list[lowest].code
       IN  /\ Lower(Strip(choice)) = S1("y")
           /\ IsInt(Strip(answer))
           /\ add_qty > 0
           /\ new_quantity <= MaxQty
           /\ \E io \in {NoFailure} \cup UpdateFailures(inventory, target_code) :
                LET r == UpdateQuantityInFile(inventory, target_code, new_quantity, io)
                IN  /\ shoes_list' =
                         [shoes_list EXCEPT ![lowest].quantity = new_quantity]
                    /\ inventory' = r.file
                    /\ last' = Op("re_stock", io, lowest, add_qty, choice, r.updated, <<>>)
  /\ UNCHANGED <<captured, running>>

(***************************************************************************)
(* re_stock, prompt by prompt                                              *)
(***************************************************************************)
\* re_stock waits at "How many units do you want to add? ": the operator
\* has answered y and no answer to the prompt has been accepted yet
AtPrompt == last.op \in {"re_stock_prompt", "re_stock_rejected"}

\* an increment that also takes 0 (add_qty < 0 in place of add_qty <= 0)
ValidIncrementOrZero(answer) ==
  IsInt(Strip(answer)) /\ IntVal(Strip(answer)) >= 0

\* lines 201-208: int() takes the stripped answer and it is above 0
ValidIncrement(answer) ==
  IsInt(Strip(answer)) /\ IntVal(Strip(answer)) > 0

\* the answers the loop of lines 200-208 accepts, each with its int()
Increments ==
  {[answer |-> a, add_qty |-> IntVal(Strip(a))] :
     a \in {x \in AddInputs : ValidIncrement(x)}}

\* lines 186-198, the answer being y: the lowest Shoe is chosen and the
\* prompt of line 202 is reached (in the model, only while some increment
\* keeps the quantity within MaxQty)
re_stock_confirmed ==
  /\ running
  /\ shoes_list # <<>>
  /\ \E choice \in ConfirmInputs :
       LET lowest == LowestShoe(shoes_list)
       IN  /\ Lower(Strip(choice)) = S1("y")
           /\ \E inc \in Increments :
                shoes_list[lowest].quantity + inc.add_qty <= MaxQty
           /\ last' = Op("re_stock_prompt", NoFailure, lowest, 0, choice, FALSE, <<>>)
  /\ UNCHANGED <<shoes_list, captured, inventory, running>>

\* lines 202-208: an answer that is no whole number, or none above 0, is
\* refused and the prompt comes again
re_stock_rejected ==
  /\ running
  /\ AtPrompt
  /\ \E answer \in AddInputs :
       /\ ~ValidIncrement(answer)
       /\ last' = [last EXCEPT !.op = "re_stock_rejected", !.out = answer]
  /\ UNCHANGED <<shoes_list, captured, inventory, running>>

\* the outcome of the file update that is settled at open(..., "r"): the
\* file is not there, or it is and cannot be opened
OpenOutcome(file) ==
  IF file.exists THEN [at |-> "open_r", n |-> 0] ELSE NoFailure

\* lines 210-218 for the Shoe at the prompt, the accepted increment and
\* one outcome of the file update
Restock(inc, io) ==
  LET lowest == last.idx
      new_quantity == shoes_list[lowest].quantity + inc.add_qty
      r == UpdateQuantityInFile(inventory, shoes_list[lowest].code, new_quantity, io)
  IN  /\ shoes_list' = [shoes_list EXCEPT ![lowest].quantity = new_quantity]
      /\ inventory' = r.file
      /\ last' = Op("re_stock", io, lowest, inc.add_qty, last.arg, r.updated,
                    inc.answer)

\* lines 202-218: an answer the loop accepts, the quantity raised and the
\* file update run, stopped at its open or going past it
re_stock_accepted ==
  /\ running
  /\ AtPrompt
  /\ \E inc \in Increments :
       /\ shoes_list[last.idx].quantity + inc.add_qty <= MaxQty
       /\ \/ Restock(inc, OpenOutcome(inventory))
          \/ \E io \in ({NoFailure} \cup
                         UpdateFailures(inventory, shoes_list[last.idx].code))
                          \ {OpenOutcome(inventory)} :
                Restock(inc, io)
  /\ UNCHANGED <<captured, running>>

(***************************************************************************)
(* search_shoe                                                             *)
(***************************************************************************)
\* the search loop without its early return: the last match wins
RECURSIVE SearchFromLast(_, _, _)
SearchFromLast(list, code, i) ==
  IF i > Len(list) THEN 0
  ELSE LET later == SearchFromLast(list, code, i + 1)
       IN  IF later # 0 THEN later
           ELSE IF list[i].code = code THEN i
           ELSE 0

\* the for loop of lines 230-234: the index of the Shoe returned, 0 for None
RECURSIVE SearchFrom(_, _, _)
SearchFrom(list, code, i) ==
  IF i > Len(list) THEN 0
  ELSE IF list[i].code = code THEN i
  ELSE SearchFrom(list, code, i + 1)

SearchShoe(list, code) == SearchFrom(list, code, 1)

search_shoe ==
  /\ running
  /\ \E typed \in SearchInputs :
       \* an empty list returns None before the prompt (lines 225-227)
       last' = Op("search_shoe", NoFailure,
                  IF shoes_list = <<>> THEN 0 ELSE SearchShoe(shoes_list, Strip(typed)),
                  0, typed, FALSE, <<>>)
  /\ UNCHANGED <<shoes_list, captured, inventory, running>>

(***************************************************************************)
(* view_all, value_per_item, highest_qty                                   *)
(***************************************************************************)
\* lines 118-124: the Shoes printed, in order (none for an empty list)
view_all ==
  /\ running
  /\ last' = Op("view_all", NoFailure, 0, 0, <<>>, FALSE, shoes_list)
  /\ UNCHANGED <<shoes_list, captured, inventory, running>>

\* lines 247-249: one (product, code, value) per Shoe, value = cost * quantity
\* (cost being in hundredths, so is the value)
ValuePerItem(list) ==
  [i \in 1..Len(list) |->
     [product |-> list[i].product, code |-> list[i].code,
      value |-> list[i].cost * list[i].quantity]]

\* float * int converts the int to a float first: OverflowError when it is
\* out of the float range, whatever the cost
Overflows(shoe) == shoe.quantity > FloatMaxInt \/ shoe.quantity < -FloatMaxInt

\* the first Shoe of list[i..] whose value cannot be computed, 0 for none
RECURSIVE OverflowFrom(_, _)
OverflowFrom(list, i) ==
  IF i > Len(list) THEN 0
  ELSE IF Overflows(list[i]) THEN i
  ELSE OverflowFrom(list, i + 1)

\* lines 241-249; nothing catches the OverflowError of line 248, neither
\* here nor in main: the values of the Shoes before are printed, then the
\* exception leaves main's loop and the process ends
value_per_item ==
  /\ running
  /\ LET k == OverflowFrom(shoes_list, 1)
     IN  IF k = 0
         THEN /\ last' = Op("value_per_item", NoFailure, 0, 0, <<>>, FALSE,
                            ValuePerItem(shoes_list))
              /\ UNCHANGED running
         ELSE /\ last' = Op("value_per_item", [at |-> "OverflowError", n |-> k],
                            k, 0, <<>>, FALSE,
                            ValuePerItem(Slice(shoes_list, 1, k - 1)))
              /\ running' = FALSE
  /\ UNCHANGED <<shoes_list, captured, inventory>>

\* a max() that keeps the last of several Shoes of the highest quantity
RECURSIVE MaxFromLast(_, _, _)
MaxFromLast(list, best, i) ==
  IF i > Len(list) THEN best
  ELSE IF list[i].quantity >= list[best].quantity THEN MaxFromLast(list, i, i + 1)
  ELSE MaxFromLast(list, best, i + 1)

\* max(shoes_list, key=lambda s: s.quantity): the index of the first Shoe
\* no later Shoe is strictly above
RECURSIVE MaxFrom(_, _, _)
MaxFrom(list, best, i) ==
  IF i > Len(list) THEN best
  ELSE IF list[i].quantity > list[best].quantity THEN MaxFrom(list, i, i + 1)
  ELSE MaxFrom(list, best, i + 1)

HighestShoe(list) == MaxFrom(list, 1, 2)

\* highest_qty that takes the Shoe it puts on sale out of shoes_list
highest_qty_sold ==
  /\ running
  /\ LET h == IF shoes_list = <<>> THEN 0 ELSE HighestShoe(shoes_list)
     IN  /\ shoes_list' = IF h = 0 THEN shoes_list
                          ELSE Slice(shoes_list, 1, h - 1)
                                 \o Slice(shoes_list, h + 1, Len(shoes_list))
         /\ captured' = IF h = 0 THEN captured
                        ELSE Slice(captured, 1, h - 1)
                               \o Slice(captured, h + 1, Len(captured))
         /\ last' = Op("highest_qty", NoFailure, h, 0, <<>>, FALSE, <<>>)
  /\ UNCHANGED <<inventory, running>>

\* lines 256-262: the index of the Shoe printed, 0 when the list is empty
highest_qty ==
  /\ running
  /\ last' = Op("highest_qty", NoFailure,
                IF shoes_list = <<>> THEN 0 ELSE HighestShoe(shoes_list),
                0, <<>>, FALSE, <<>>)
  /\ UNCHANGED <<shoes_list, captured, inventory, running>>

(***************************************************************************)
(* main, and the world around it                                           *)
(***************************************************************************)
\* choice "0": break
exit ==
  /\ running
  /\ running' = FALSE
  /\ last' = Op("exit", NoFailure, 0, 0, <<>>, FALSE, <<>>)
  /\ UNCHANGED <<shoes_list, captured, inventory>>

\* any other choice: "Invalid option. Please try again."
invalid_option ==
  /\ running
  /\ last' = Op("invalid_option", NoFailure, 0, 0, <<>>, FALSE, <<>>)
  /\ UNCHANGED <<shoes_list, captured, inventory, running>>

\* inventory.txt is an ordinary file: between two operations somebody else
\* may delete one of its lines
RemoveAt(seq, i) == Slice(seq, 1, i - 1) \o Slice(seq, i + 1, Len(seq))

external_edit ==
  /\ running
  /\ inventory.exists
  /\ \E i \in 2..Len(ReadLines(inventory.content)) :
       inventory' = [exists |-> TRUE,
                     content |-> WriteLines(RemoveAt(ReadLines(inventory.content), i))]
  /\ last' = Op("external_edit", NoFailure, 0, 0, <<>>, FALSE, <<>>)
  /\ UNCHANGED <<shoes_list, captured, running>>

Next ==
  \/ read_shoes_data
  \/ capture_shoes
  \/ view_all
  \/ re_stock_empty
  \/ re_stock_cancelled
  \/ re_stock
  \/ search_shoe
  \/ value_per_item
  \/ highest_qty
  \/ exit
  \/ invalid_option
  \/ external_edit

Spec == Init /\ [][Next]_vars

\* Load, Capture and Restock with re_stock taken prompt by prompt: at the
\* increment prompt only an answer to it is a step
AtMenu ==
  \/ read_shoes_data
  \/ capture_shoes
  \/ re_stock_empty
  \/ re_stock_cancelled
  \/ re_stock_confirmed
  \/ exit

PromptNext ==
  \/ ~AtPrompt /\ AtMenu
  \/ re_stock_rejected
  \/ re_stock_accepted

\* the operator at the increment prompt does type a whole number above 0 in
\* the end
PromptSpec == Init /\ [][PromptNext]_vars /\ WF_vars(re_stock_accepted)

\* Load and Restock, and the edits of somebody else, on files of other
\* lines: two valid lines of different codes, and a 5-field line that has
\* the code of the first but no whole number as its quantity; the data
\* lines come in every order
SyncPool ==
  << LinePool[1],                                                    \* valid, A
     <<"U", ",", "A", ",", "p", ",", "2", ",", "x">>,                \* A, bad quantity
     <<"U", ",", "B", ",", "q", ",", "2", ",", "-", "1">> >>         \* valid, B

SyncContents ==
  {Terminated(<<Header>> \o [i \in 1..Len(c) |-> SyncPool[c[i]]]) :
     c \in UNION {[1..k -> 1..Len(SyncPool)] : k \in 0..MaxDataLines}}

SyncInit ==
  /\ shoes_list = <<>>
  /\ captured = <<>>
  /\ inventory \in [exists : {TRUE}, content : SyncContents]
  /\ running = TRUE
  /\ last = [op |-> "start", io |-> NoFailure, idx |-> 0, add |-> 0, arg |-> <<>>,
             updated |-> FALSE, out |-> <<>>, list0 |-> <<>>, captured0 |-> <<>>,
             file0 |-> inventory]

SyncNext ==
  \/ read_shoes_data
  \/ re_stock_empty
  \/ re_stock_cancelled
  \/ re_stock
  \/ external_edit

SyncSpec == SyncInit /\ [][SyncNext]_vars

\* the same program, the operator also typing quantities beyond the float
\* range
LargeNext ==
  \/ Next
  \/ capture_large

LargeSpec == Init /\ [][LargeNext]_vars

(***************************************************************************)
(* Vocabulary of the properties.  A data line is a line after the first;   *)
(* its fields are its comma-separated parts without the whitespace around  *)
(* them; a record line is a non-blank data line of exactly 5 fields.       *)
(***************************************************************************)
LinesOf(file) == IF file.exists THEN ReadLines(file.content) ELSE <<>>

Fields(line) == Parts(RStripNL(line))

IsBlank(line) == Strip(line) = <<>>

IsRecordLine(line) == ~IsBlank(line) /\ Len(Fields(line)) = 5

HasCode(line, code) == IsRecordLine(line) /\ Fields(line)[2] = code

\* the lines read_shoes_data turns into a Shoe
IsValidLine(line) ==
  IsRecordLine(line) /\ IsFloat(Fields(line)[4]) /\ IsInt(Fields(line)[5])

\* the non-blank lines read_shoes_data skips
IsMalformedLine(line) == ~IsBlank(line) /\ ~IsValidLine(line)

\* the text of a line, without its line terminator
Text(line) == RStripNL(line)

\* a confirmed re_stock with a positive increment has just run
Restocked == last.op = "re_stock" /\ last.add > 0

\* the persistence step was not stopped before it wrote
ReachedWrite == last.io.at \in {"none", "write"}

Target == last.idx

TargetCode == last.list0[last.idx].code

\* the data lines of the target's code, among the lines before
Matching(before) == {j \in 2..Len(before) : HasCode(before[j], TargetCode)}

First(S) == CHOOSE j \in S : \A k \in S : j <= k

\* line j as re_stock leaves it when it is not one it rewrites: the same
\* bytes, a last line without its "\n" having gained it
CopiedThrough(before, now, j) ==
  \/ now[j] = before[j]
  \/ /\ j = Len(before)
     /\ ~EndsWithNL(before[j])
     /\ now[j] = before[j] \o <<NL>>

\* line j is the four fields it had, the target's quantity and "\n"
Rewritten(before, now, j) ==
  LET f == Fields(before[j])
  IN  now[j] = Join(<<f[1], f[2], f[3], f[4], IntStr(shoes_list[Target].quantity)>>)
                 \o <<NL>>

C2_MinimumGetsIncrement ==
  Restocked =>
     /\ Target \in 1..Len(last.list0)
     /\ \A j \in 1..Len(last.list0) :
          /\ last.list0[Target].quantity <= last.list0[j].quantity
          /\ j < Target => last.list0[Target].quantity < last.list0[j].quantity
     /\ Len(shoes_list) = Len(last.list0)
     /\ shoes_list[Target].quantity = last.list0[Target].quantity + last.add
     /\ \A j \in 1..Len(shoes_list) :
          /\ j # Target => shoes_list[j] = last.list0[j]
          /\ shoes_list[j].code = last.list0[j].code
          /\ shoes_list[j].cost = last.list0[j].cost

\* a Restock chose among Shoes of equal minimum quantity, and its
\* persistence step failed
C2_Witness ==
  /\ Restocked
  /\ last.io.at # "none"
  /\ \E j \in 1..Len(last.list0) :
       j # Target /\ last.list0[j].quantity = last.list0[Target].quantity
  /\ shoes_list # last.list0

(***************************************************************************)
(* C3                                                                      *)
(***************************************************************************)
ValidLines(lines) == {j \in 2..Len(lines) : IsValidLine(lines[j])}

Loaded == last.op = "read_shoes_data" /\ last.io = NoFailure /\ last.file0.exists

LoadFailed ==
  /\ last.op = "read_shoes_data"
  /\ \/ ~last.file0.exists
     \/ last.io.at # "none"
     \/ last.file0.content = <<>>

\* C4: when Load cannot read records (file missing, permission denied, any
\* other I/O error, a file of zero lines), shoes_list is empty afterwards,
\* whatever it held, and the file is unchanged.
C4_FailedLoadEmptiesStore ==
  LoadFailed => shoes_list = <<>> /\ captured = <<>> /\ inventory = last.file0

\* a Load failed on an I/O error with Shoes in the list
C4_Witness ==
  /\ LoadFailed
  /\ last.io.at = "read"
  /\ Len(last.list0) >= 2
  /\ \E i \in 1..Len(last.list0) : last.captured0[i]

(***************************************************************************)
(* C5                                                                      *)
(***************************************************************************)
CodeNotInFile == last.file0.exists /\ Matching(LinesOf(last.file0)) = {}

\* C5: when the file holds no data line with the target's code at the time
\* of a confirmed Restock, the file is byte-identical afterwards and the
\* target's quantity in memory has still grown by the increment.
C5_CodeNotFoundLeavesFile ==
  (Restocked /\ CodeNotInFile) =>
     /\ inventory = last.file0
     /\ ~last.updated
     /\ shoes_list[Target].quantity = last.list0[Target].quantity + last.add

\* a Restock of a Shoe that was read from the file, whose line is not in
\* the file any more
C5_Witness ==
  /\ Restocked /\ CodeNotInFile
  /\ ~last.captured0[Target]
  /\ Len(LinesOf(last.file0)) >= 2
  /\ ~EndsWithNL(last.file0.content)

(***************************************************************************)
(* C6                                                                      *)
(***************************************************************************)
\* C6, as stated: nothing of a captured Shoe is ever written to the file,
\* also not its quantity when a Restock selects it: capture_shoes leaves
\* the file as it was, and such a Restock leaves every line its text.
C6_CapturedNeverWritten ==
  /\ last.op = "capture_shoes" => inventory = last.file0
  /\ (Restocked /\ last.captured0[Target] /\ last.io = NoFailure) =>
       LET before == LinesOf(last.file0)
           now == LinesOf(inventory)
       IN  /\ Len(now) = Len(before)
           /\ \A j \in 1..Len(before) : Text(now[j]) = Text(before[j])

\* C6, amended: capture_shoes never writes to the file, and no operation
\* adds a line for a captured Shoe; but a confirmed Restock that selects a
\* captured Shoe writes that Shoe's new quantity into every record line of
\* the file that carries its code (only when no line carries it is the file
\* untouched).  An I/O failure before the write leaves the file as it was,
\* one during the write leaves a prefix of these lines.
C6_CapturedWrittenOnlyByRestock ==
  /\ last.op = "capture_shoes" => inventory = last.file0
  /\ (Restocked /\ last.captured0[Target]) =>
       LET before == LinesOf(last.file0)
           now == LinesOf(inventory)
           matching == Matching(before)
       IN  /\ Len(now) <= Len(before)
           /\ matching = {} => inventory = last.file0
           /\ \A j \in 1..Len(now) :
                IF j \in matching /\ ReachedWrite
                  THEN Rewritten(before, now, j)
                  ELSE CopiedThrough(before, now, j)
           /\ (last.io = NoFailure /\ matching # {}) =>
                Len(now) = Len(before) /\ last.updated

\* a Restock selected a captured Shoe and wrote its quantity into the file
C6_Witness ==
  /\ Restocked /\ last.captured0[Target]
  /\ last.updated
  /\ \E j \in Matching(LinesOf(last.file0)) :
       /\ Fields(LinesOf(inventory)[j])[5] = IntStr(shoes_list[Target].quantity)
       /\ Fields(LinesOf(last.file0)[j])[5] # IntStr(shoes_list[Target].quantity)

(***************************************************************************)
(* C7                                                                      *)
(***************************************************************************)
Malformed(lines) == {j \in 2..Len(lines) : IsMalformedLine(lines[j])}

\* C7, as stated: every line Load skips as malformed (not 5 fields, or 5
\* fields with an unparseable cost or quantity) has the same text after
\* every Restock rewrite, for every target code.
C7_MalformedLinesUntouched ==
  (Restocked /\ last.io = NoFailure) =>
     LET before == LinesOf(last.file0)
         now == LinesOf(inventory)
     IN  \A j \in Malformed(before) :
            j <= Len(now) /\ Text(now[j]) = Text(before[j])

\* C7, amended: a line Load skips because it has not 5 fields is copied
\* through by every Restock rewrite (byte-identical, a last line without
\* "\n" gaining one); a line of 5 fields that Load skips for its cost or
\* quantity is copied through only when its code is not the target's: when
\* it is, the line is rewritten like a valid one, with the target's new
\* quantity.  A write cut short by an I/O failure keeps a prefix of these
\* lines.
C7_MalformedLinesCopiedUnlessCodeMatches ==
  Restocked =>
     LET before == LinesOf(last.file0)
         now == LinesOf(inventory)
     IN  /\ last.io.at # "write" => Len(now) = Len(before)
         /\ \A j \in Malformed(before) :
              j <= Len(now) =>
                 IF HasCode(before[j], TargetCode) /\ ReachedWrite
                   THEN Rewritten(before, now, j)
                   ELSE CopiedThrough(before, now, j)

\* a Restock rewrote the file and copied a line that has not 5 fields, and
\* rewrote a line of 5 fields with an unparseable cost
C7_Witness ==
  /\ Restocked /\ last.io = NoFailure /\ last.updated
  /\ LET before == LinesOf(last.file0)
     IN  /\ \E j \in Malformed(before) : ~IsRecordLine(before[j])
         /\ \E j \in Malformed(before) :
              HasCode(before[j], TargetCode) /\ LinesOf(inventory)[j] # before[j]

(***************************************************************************)
(* C8                                                                      *)
(***************************************************************************)
\* C8: Restock's rewrite is atomic: after it, whatever I/O failure it met,
\* the file holds either all it held before or all the rewritten lines.
C8_RewriteAtomic ==
  Restocked =>
     \/ inventory = last.file0
     \/ /\ inventory.exists
        /\ inventory.content =
             WriteLines(UpdatedLines(LinesOf(last.file0), TargetCode,
                                     shoes_list[Target].quantity))

(***************************************************************************)
(* C9                                                                      *)
(***************************************************************************)
\* C9: every Shoe of shoes_list has quantity >= 0 and cost >= 0.
C9_NonNegative ==
  \A i \in 1..Len(shoes_list) :
     shoes_list[i].quantity >= 0 /\ shoes_list[i].cost >= 0

(***************************************************************************)
(* C10                                                                     *)
(***************************************************************************)
\* the code searched for: what was typed, stripped (line 229)
SearchedCode == Strip(last.arg)

Matches == {i \in 1..Len(shoes_list) : shoes_list[i].code = SearchedCode}

\* C10: Search returns the Shoe of lowest index whose code is the searched
\* code, and None exactly when no Shoe has it (so for the empty list).
C10_SearchFirstMatch ==
  last.op = "search_shoe" =>
     /\ last.idx = 0 <=> Matches = {}
     /\ Matches # {} => last.idx \in Matches /\ \A j \in Matches : last.idx <= j

\* a Search found the first of two Shoes of the searched code
C10_Witness ==
  /\ last.op = "search_shoe"
  /\ Cardinality(Matches) >= 2
  /\ last.idx = 1
  /\ SearchedCode # last.arg

(***************************************************************************)
(* C11                                                                     *)
(***************************************************************************)
\* the Shoes of the highest quantity in shoes_list
Highest ==
  {i \in 1..Len(shoes_list) :
     \A j \in 1..Len(shoes_list) : shoes_list[j].quantity <= shoes_list[i].quantity}

Declined == Lower(Strip(last.arg)) # S1("y")

\* C12: a Restock on an empty shoes_list, or one the operator declines,
\* changes nothing: shoes_list and the file are as before, and the file
\* update was not run (no rewrite, no I/O outcome, no increment).
C12_RestockWithoutEffect ==
  (last.op = "re_stock" /\ (last.list0 = <<>> \/ Declined)) =>
     /\ shoes_list = last.list0
     /\ captured = last.captured0
     /\ inventory = last.file0
     /\ ~last.updated
     /\ last.io = NoFailure
     /\ last.add = 0

\* the operator declined the Restock of a Shoe whose code is that of a line
\* of the file, a line a rewrite would have changed
C12_Witness ==
  /\ last.op = "re_stock"
  /\ last.list0 # <<>>
  /\ Declined
  /\ LET before == LinesOf(last.file0)
     IN  \E j \in Matching(before) :
            before[j] # Join(Fields(before[j])) \o <<NL>>

\* a Restock found shoes_list empty, the file holding data lines
C12_WitnessEmpty ==
  /\ last.op = "re_stock"
  /\ last.list0 = <<>>
  /\ Len(LinesOf(last.file0)) >= 2

(***************************************************************************)
(* C13                                                                     *)
(***************************************************************************)
\* the operations that do not rebuild shoes_list
KeepsShoes == last.op \notin {"start", "read_shoes_data"}

\* C13: under every operation but Load each Shoe that was in shoes_list is
\* still there, at its index, with its country, code, product and cost; its
\* quantity is another one only after a confirmed Restock that selected it.
C13_DescriptiveFieldsFixed ==
  KeepsShoes =>
     /\ Len(shoes_list) >= Len(last.list0)
     /\ \A i \in 1..Len(last.list0) :
          /\ shoes_list[i].country = last.list0[i].country
          /\ shoes_list[i].code = last.list0[i].code
          /\ shoes_list[i].product = last.list0[i].product
          /\ shoes_list[i].cost = last.list0[i].cost
          /\ shoes_list[i].quantity # last.list0[i].quantity =>
                (Restocked /\ ~Declined /\ i = Target)

\* a confirmed Restock raised one of two Shoes of the same code and quantity
C13_Witness ==
  /\ Restocked
  /\ shoes_list[Target].quantity > last.list0[Target].quantity
  /\ \E i \in 1..Len(last.list0) :
       /\ i # Target
       /\ last.list0[i].code = TargetCode
       /\ last.list0[i].quantity = last.list0[Target].quantity

(***************************************************************************)
(* C14                                                                     *)
(***************************************************************************)
\* the Shoe capture_shoes builds from the five answers (lines 90-109)
CapturedShoe(answers) ==
  Shoe(Strip(answers[1]), Strip(answers[2]), Strip(answers[3]),
       FloatVal(Strip(answers[4])), IntVal(Strip(answers[5])))

\* C14: Capture appends exactly one Shoe, built from the fields supplied
\* (stripped, cost and quantity parsed), at the end of shoes_list: the list
\* is one longer, the Shoes it had keep index and values, and the file is
\* unchanged.
C14_CaptureAppendsOne ==
  last.op = "capture_shoes" =>
     /\ Len(shoes_list) = Len(last.list0) + 1
     /\ \A i \in 1..Len(last.list0) : shoes_list[i] = last.list0[i]
     /\ shoes_list[Len(shoes_list)] = CapturedShoe(last.out)
     /\ inventory = last.file0

\* a Capture onto a loaded list, the file being there, of answers that had
\* whitespace to strip
C14_Witness ==
  /\ last.op = "capture_shoes"
  /\ last.list0 # <<>>
  /\ inventory.exists
  /\ Strip(last.out[2]) # last.out[2]
  /\ shoes_list[Len(shoes_list)].code = Strip(last.out[2])

(***************************************************************************)
(* C15                                                                     *)
(***************************************************************************)
\* C15: no error outcome ends the dispatch loop: after every operation but
\* exit the menu is shown again, and the loop is left only by exit.
C15_LoopEndsOnlyOnExit ==
  /\ ~running => last.op = "exit"
  /\ last.op # "exit" => running

(***************************************************************************)
(* C16                                                                     *)
(***************************************************************************)
\* the answer to the increment prompt: no whole number, or none above 0
BadIncrement(answer) ==
  ~IsInt(Strip(answer)) \/ IntVal(Strip(answer)) <= 0

\* a Restock the operator confirmed has run to its end
Completed == last.op = "re_stock" /\ last.list0 # <<>> /\ ~Declined

\* a refused answer leaves shoes_list and the file as they were
C16_RejectedChangesNothing ==
  last.op = "re_stock_rejected" =>
     /\ BadIncrement(last.out)
     /\ shoes_list = last.list0
     /\ inventory = last.file0

\* the increment applied is a whole number above 0, the one typed, and the
\* target's quantity is strictly higher than it was
C16_IncrementPositive ==
  Completed =>
     /\ ~BadIncrement(last.out)
     /\ last.add = IntVal(Strip(last.out))
     /\ last.add > 0
     /\ shoes_list[Target].quantity > last.list0[Target].quantity

\* at the prompt a zero, negative or non-numeric answer brings the prompt
\* again, and nothing but an answer ends it
C16_PromptRepeated ==
  AtPrompt => (last'.op = "re_stock_rejected" \/ (last'.op = "re_stock" /\ last'.add > 0))

\* C16: at Restock's increment prompt every zero, negative or non-numeric
\* answer is refused without a change to shoes_list or the file and the
\* prompt comes again; the increment applied is a whole number above 0, so
\* a confirmed Restock strictly raises the target's quantity; and, the
\* operator typing a whole number above 0 in the end, Restock completes.
C16_PromptLoop ==
  /\ [](C16_RejectedChangesNothing /\ C16_IncrementPositive)
  /\ [][C16_PromptRepeated]_vars
  /\ (AtPrompt ~> Completed)

\* a confirmed Restock completed on an accepted answer that had whitespace
\* to strip, the target's quantity having been below 0
C16_Witness ==
  /\ Completed
  /\ last.add > 0
  /\ Strip(last.out) # last.out
  /\ last.list0[Target].quantity < 0

\* a zero or negative answer has just been refused at the prompt
C16_WitnessRejected ==
  /\ last.op = "re_stock_rejected"
  /\ IsInt(Strip(last.out))
  /\ IntVal(Strip(last.out)) <= 0

(***************************************************************************)
(* C17                                                                     *)
(***************************************************************************)
\* the Shoe of the example: cost 2300, quantity 5
ExampleShoe ==
  Shoe(S1("U"), S1("A"), S1("p"), FloatVal(<<"2", "3", "0", "0">>), 5)

\* C17: ValuePerItem gives exactly one (product, code, value) per Shoe, in
\* the order of shoes_list, value being the Shoe's cost times its quantity
\* (11500 for cost 2300 and quantity 5), and nothing for an empty list.
C17_OneValuePerShoe ==
  /\ last.op = "value_per_item" =>
        /\ Len(last.out) = Len(shoes_list)
        /\ \A i \in 1..Len(shoes_list) :
             /\ last.out[i].product = shoes_list[i].product
             /\ last.out[i].code = shoes_list[i].code
             /\ last.out[i].value = shoes_list[i].cost * shoes_list[i].quantity
  /\ ValuePerItem(<<ExampleShoe>>)[1].value = FloatVal(<<"1", "1", "5", "0", "0">>)

(***************************************************************************)
(* C18                                                                     *)
(***************************************************************************)
\* a Load of file, met by no failure, would yield list
InSync(list, file) == file.exists /\ LoadedShoes(file, NoFailure) = list

\* no two of the data lines in S have the same code
DistinctCodes(lines, S) ==
  \A i \in S, j \in S : i # j => Fields(lines[i])[2] # Fields(lines[j])[2]

\* the 5-field data lines, valid or not
RecordLines(lines) == {j \in 2..Len(lines) : IsRecordLine(lines[j])}

\* a Restock (confirmed or not) that met no I/O failure
CleanRestock == last.op = "re_stock" /\ last.io = NoFailure

\* C18, as stated, one Restock at a time: when shoes_list is what a Load of
\* the file yields, and the valid data lines of the file have codes that
\* differ, then after a Restock without I/O failure shoes_list is again what
\* a Load of the file yields (shoes_list is so after a successful Load, so
\* it stays so over any number of such Restocks).
C18_ValidCodesDistinct ==
  LET before == LinesOf(last.file0)
  IN  (/\ CleanRestock
       /\ InSync(last.list0, last.file0)
       /\ DistinctCodes(before, ValidLines(before)))
      => InSync(shoes_list, inventory)

\* C18, amended: the same, the codes differing over all the 5-field data
\* lines of the file, those with a bad cost or quantity included (they are
\* rewritten with the code they share, and a bad quantity becomes a good
\* one); the 5-field lines still differ in code afterwards.
C18_RecordCodesDistinct ==
  LET before == LinesOf(last.file0)
      now == LinesOf(inventory)
  IN  (/\ CleanRestock
       /\ InSync(last.list0, last.file0)
       /\ DistinctCodes(before, RecordLines(before)))
      => /\ InSync(shoes_list, inventory)
         /\ DistinctCodes(now, RecordLines(now))

\* a confirmed Restock on two Shoes loaded from a file whose 5-field lines
\* differ in code has rewritten the file
C18_Witness ==
  LET before == LinesOf(last.file0)
  IN  /\ CleanRestock
      /\ Restocked
      /\ last.updated
      /\ InSync(last.list0, last.file0)
      /\ DistinctCodes(before, RecordLines(before))
      /\ Len(shoes_list) >= 2
      /\ inventory # last.file0

(***************************************************************************)
(* C19                                                                     *)
(***************************************************************************)
Queries == {"view_all", "search_shoe", "value_per_item", "highest_qty"}

\* C19: view_all, search_shoe, value_per_item and highest_qty leave
\* shoes_list and the file as they were; of the operations of the program
\* only Load, Capture and Restock change shoes_list and only Restock
\* changes the file (a change by somebody else, external_edit, is no
\* operation of the program).
C19_QueriesReadOnly ==
  /\ last.op \in Queries =>
        /\ shoes_list = last.list0
        /\ captured = last.captured0
        /\ inventory = last.file0
  /\ shoes_list # last.list0 =>
        last.op \in {"read_shoes_data", "capture_shoes", "re_stock"}
  /\ inventory # last.file0 => last.op \in {"re_stock", "external_edit"}

\* HighestQuantity ran on two Shoes or more, the file being there
C19_Witness ==
  /\ last.op = "highest_qty"
  /\ Len(last.list0) >= 2
  /\ last.idx > 0
  /\ last.file0.exists
  /\ Len(LinesOf(last.file0)) >= 2

=============================================================================
